---- MODULE Spec2Model ----
(***************************************************************************)
(* Batch orchestration of the TradingAgents analysts.                      *)
(*                                                                         *)
(* prog = "master"  : scripts/master_workflow.py, AnalysisOrchestrator.run *)
(*                    and main: validate -> run agents (one child process  *)
(*                    `cli.main agent run` per agent) -> discover JSON ->  *)
(*                    convert to Word -> summary.                          *)
(* prog = "run_all" : cli/run_all_agents.py, run: the in-process loop.     *)
(*                                                                         *)
(* The file system is part of the state: the results directory             *)
(* results/<TICKER>/<date>/, the JSON records in it and the .docx files of *)
(* its reports/ subdirectory.                                              *)
(***************************************************************************)
EXTENDS Integers, Sequences, FiniteSets, TLC

VARIABLES
    prog,           \* which entry point runs
    pc,             \* position of the orchestrator
    ticker,         \* self.ticker / ticker
    date,           \* self.date / date
    agents,         \* self.agents (master); the --agents tokens (run_all)
    env,            \* the collaborator paths that exist under project_root
    dirExists,      \* results_dir exists
    files,          \* the *.json files of results_dir
    docx,           \* the *.docx files of reports_dir
    clock,          \* wall clock, in seconds (the HHMMSS of a file name)
    i,              \* loop index of the agent loop (1-based)
    child,          \* position of the `agent run` child process
    cres,           \* the status execute_agent returned in the child
    failed_agents,  \* run_agents' failed_agents
    launched,       \* history: the agents launched so far, in order
    outcomes,       \* history: how each launch ended
    agents_to_run,  \* run_all: agents_to_run
    results,        \* run_all: results, a list of (agent, status, info)
    json_files,     \* self.json_files
    word_files,     \* self.word_files
    conv,           \* history: how the two converter processes ended
    skipped,        \* history: records whose rendering raised in the per-file pass
    stages,         \* history: the stages started, in order
    rets,           \* history: what each stage returned
    ret,            \* what run() returned
    summary,        \* the final summary, once printed
    exitCode,       \* the process exit code
    agent_type,     \* execute_agent: its argument agent_type
    node,           \* execute_agent: where the call is (a node of the analyst graph)
    budget,         \* the tool calls the execution starts with
    messages,       \* the message log of the graph state
    toolCallsRemaining, \* the counter of the graph state
    produced,       \* history: the steps of the analyst node so far
    called,         \* history: the tool calls made so far
    report,         \* the report field of the graph state
    status,         \* execute_agent: status
    analysis_text,  \* execute_agent: analysis_text
    raisedAt,       \* history: where an exception came from
    record,         \* what execute_agent returned, once it has
    gpc,            \* clone_or_update_repo: where the call is
    platform,       \* the platform the script runs on
    repo_url,       \* clone_or_update_repo: its argument repo_url
    destination_path, \* its argument destination_path, then the resolved path
    branch,         \* its argument branch
    dest,           \* what is at the resolved destination path: "absent", "dir"
                    \* (no .git in it), "repo", "cloned" (a repository this call made)
    executed,       \* history: the commands the shell was given, and how they ended
    gret            \* what clone_or_update_repo returned

vars == <<prog, pc, ticker, date, agents, env, dirExists, files, docx, clock, i,
          child, cres, failed_agents, launched, outcomes, agents_to_run,
          results, json_files, word_files, conv, skipped, stages, rets, ret,
          summary, exitCode, agent_type, node, budget, messages,
          toolCallsRemaining, produced, called, report, status, analysis_text,
          raisedAt, record, gpc, platform, repo_url, destination_path, branch,
          dest, executed, gret>>

\* the state of one call of clone_or_update_repo
cvars == <<gpc, platform, repo_url, destination_path, branch, dest, executed,
           gret>>

\* the state of one call of execute_agent
gvars == <<agent_type, node, budget, messages, toolCallsRemaining, produced,
           called, report, status, analysis_text, raisedAt, record>>

-----------------------------------------------------------------------------
(* Bounds of the model *)

\* longest list of agent ids given on the command line
MaxPlan == 2

\* seconds that can pass while the in-process loop runs
MaxTicks == 1

\* complete records that may fail to render in one conversion
MaxSkipped == 1

\* turns of the in-process loop that may end other than in a record of status
\* "completed" (an exception, or a record of status "error")
MaxErrors == 1

\* the largest number of tool calls an execution may start with
MaxBudget == 2

\* the most tool invocations one message of the analyst requests
MaxRequested == 2

-----------------------------------------------------------------------------
(* Program constants *)

AGENTS ==
    {"market", "social", "news", "fundamentals", "bull", "bear", "trader",
     "risky", "neutral", "safe"}

\* the analysts execute_agent runs a graph for; every other agent is a placeholder
factory_map == {"market", "social", "news", "fundamentals"}

DEFAULT_AGENT_ORDER ==
    <<"market", "social", "news", "fundamentals", "bull", "bear", "trader",
      "risky", "neutral", "safe">>

\* AnalysisOrchestrator.__init__: agents or ["market", "fundamentals", "news"]
DefaultAgents == <<"market", "fundamentals", "news">>

-----------------------------------------------------------------------------
(* Inputs the model enumerates *)

\* agent ids offered on the command line: an analyst and an unknown id
PlanIds == {"market", "bogus"}

RECURSIVE SeqsUpTo(_, _)
SeqsUpTo(S, n) ==
    IF n = 0 THEN {<<>>}
    ELSE LET shorter == SeqsUpTo(S, n - 1)
         IN  shorter \cup {Append(s, x) : s \in {t \in shorter : Len(t) = n - 1}, x \in S}

Plans == SeqsUpTo(PlanIds, MaxPlan)

Tickers == {"", "intc"}

\* "" stands for a date that was not given
Dates == {"", "2025-12-25", "25/12/2025"}

\* datetime.date.today().isoformat()
Today == "2025-12-25"

Paths == {"venv", "cli", "converter"}

\* str.upper()
upper(t) == IF t = "intc" THEN "INTC" ELSE t

\* datetime.strptime(d, "%Y-%m-%d") does not raise ValueError
DateParses(d) == d = "2025-12-25"

\* a record left in results_dir by an earlier run, and a document left in reports_dir
StaleFile ==
    [agent |-> "market", stamp |-> 0, cur |-> FALSE, status |-> "completed",
     complete |-> TRUE, dir |-> <<"results", "INTC", "2025-12-25">>]

StaleDocx == <<"news", 0>>

Combined == <<"Combined_Analysis", 0>>

\* the file name {agent}_analysis_{HHMMSS}.json, without its suffix
Stem(f) == <<f.agent, f.stamp>>

\* open(name, "w") and json.dump: a file of that name in that directory is replaced
WriteFile(fs, f) == {g \in fs : Stem(g) # Stem(f) \/ g.dir # f.dir} \cup {f}

\* the files of directory d
InDir(fs, d) == {f \in fs : f.dir = d}

NoRets == [validate |-> "unset", execute |-> "unset", discover |-> "unset",
           transform |-> "unset"]

Bool(b) == IF b THEN "True" ELSE "False"

-----------------------------------------------------------------------------
(* The state after construction *)

InitCommon ==
    /\ dirExists \in BOOLEAN
    /\ files \in (IF dirExists THEN {{}, {StaleFile}} ELSE {{}})
    /\ clock = 0
    /\ i = 1
    /\ child = "idle"
    /\ cres = "none"
    /\ failed_agents = <<>>
    /\ launched = <<>>
    /\ outcomes = <<>>
    /\ agents_to_run = <<>>
    /\ results = <<>>
    /\ json_files = {}
    /\ word_files = {}
    /\ conv = <<>>
    /\ skipped = {}
    /\ stages = <<>>
    /\ rets = NoRets
    /\ ret = "unset"
    /\ summary = <<>>
    /\ exitCode = -1

\* no call of execute_agent is followed step by step
GraphIdle ==
    /\ agent_type = ""
    /\ node = "idle"
    /\ budget = 0
    /\ messages = <<>>
    /\ toolCallsRemaining = 0
    /\ produced = 0
    /\ called = 0
    /\ report = "None"
    /\ status = "none"
    /\ analysis_text = "None"
    /\ raisedAt = "nowhere"
    /\ record = <<>>

\* no call of clone_or_update_repo is followed
GitIdle ==
    /\ gpc = "idle"
    /\ platform = "none"
    /\ repo_url = <<>>
    /\ destination_path = "None"
    /\ branch = "None"
    /\ dest = "absent"
    /\ executed = <<>>
    /\ gret = "unset"

\* as OrchestratorInit, but the ticker is kept as it was typed
OrchestratorInit_raw(t, d, a) ==
    /\ ticker = t
    /\ date = d
    /\ agents = (IF a = <<>> THEN DefaultAgents ELSE a)
    /\ pc = "validate"

\* AnalysisOrchestrator.__init__
OrchestratorInit(t, d, a) ==
    /\ ticker = upper(t)
    /\ date = d
    /\ agents = (IF a = <<>> THEN DefaultAgents ELSE a)
    /\ pc = "validate"

InitMaster ==
    /\ prog = "master"
    /\ InitCommon
    /\ GraphIdle
    /\ GitIdle
    /\ env \in SUBSET Paths
    /\ docx \in (IF dirExists THEN {{}, {StaleDocx}} ELSE {{}})
    /\ \E t \in Tickers, d \in Dates, a \in Plans : OrchestratorInit(t, d, a)

\* run_all_agents.py, run: the options as given; it reads neither the
\* collaborator paths nor the reports directory
InitRunAll ==
    /\ prog = "run_all"
    /\ InitCommon
    /\ GraphIdle
    /\ GitIdle
    /\ env = Paths
    /\ docx = {}
    /\ ticker \in Tickers \ {""}
    /\ date \in Dates
    /\ agents \in Plans
    /\ pc = "ra_validate"

Init == InitMaster \/ InitRunAll

-----------------------------------------------------------------------------
(* master_workflow.py: AnalysisOrchestrator.run *)

\* as SetupValid, without the check of the date
SetupValid_nodate ==
    /\ "venv" \in env
    /\ "cli" \in env
    /\ "converter" \in env
    /\ ticker # ""

\* validate_setup's checks, in the order of the code
SetupValid ==
    /\ "venv" \in env
    /\ "cli" \in env
    /\ "converter" \in env
    /\ ticker # ""
    /\ DateParses(date)

\* run, step 1: if not self.validate_setup(): return False
AfterValidate(ok) == IF ok THEN "execute" ELSE "returned"

validate_setup ==
    /\ prog = "master"
    /\ pc = "validate"
    /\ stages' = Append(stages, "validate")
    /\ rets' = [rets EXCEPT !.validate = Bool(SetupValid)]
    /\ pc' = AfterValidate(SetupValid)
    /\ ret' = (IF pc' = "returned" THEN "False" ELSE ret)
    /\ UNCHANGED gvars
    /\ UNCHANGED cvars
    /\ UNCHANGED <<prog, ticker, date, agents, env, dirExists, files, docx, clock, i,
                   child, cres, failed_agents, launched, outcomes, agents_to_run,
                   results, json_files, word_files, conv, skipped, summary, exitCode>>

\* the agent the loop of run_agents is at
agent == agents[i]

\* as TaskFailed, but a task that timed out is not counted as failed
TaskFailed_lenient(o) == o \notin {"exit0", "timeout"}

\* lines 133-146: a launch fails unless the child returned code 0
TaskFailed(o) == o # "exit0"

\* as RecordOutcome, but a failed task ends the loop
RecordOutcome_abort(o) ==
    /\ outcomes' = Append(outcomes, o)
    /\ failed_agents' = (IF TaskFailed(o) THEN Append(failed_agents, agent)
                         ELSE failed_agents)
    /\ child' = "idle"
    /\ cres' = "none"
    /\ pc' = (IF TaskFailed(o) THEN "run_agents_return" ELSE "sleep")

\* as RecordOutcome, but the child is left running when the call returns
RecordOutcome_nowait(o) ==
    /\ outcomes' = Append(outcomes, o)
    /\ failed_agents' = (IF TaskFailed(o) THEN Append(failed_agents, agent)
                         ELSE failed_agents)
    /\ UNCHANGED <<child, cres>>
    /\ pc' = "sleep"

\* run_agents, after subprocess.run has returned or raised with outcome o
RecordOutcome(o) ==
    /\ outcomes' = Append(outcomes, o)
    /\ failed_agents' = (IF TaskFailed(o) THEN Append(failed_agents, agent)
                         ELSE failed_agents)
    /\ child' = "idle"
    /\ cres' = "none"
    /\ pc' = "sleep"

\* run, step 2: run_agents is entered; failed_agents = []
run_agents_begin ==
    /\ prog = "master"
    /\ pc = "execute"
    /\ stages' = Append(stages, "execute")
    /\ failed_agents' = <<>>
    /\ i' = 1
    /\ pc' = "launch"
    /\ UNCHANGED gvars
    /\ UNCHANGED cvars
    /\ UNCHANGED <<prog, ticker, date, agents, env, dirExists, files, docx, clock,
                   child, cres, launched, outcomes, agents_to_run, results,
                   json_files, word_files, conv, skipped, rets, ret, summary,
                   exitCode>>

\* subprocess.run(cmd, timeout=120): the child starts, or the launch itself raises
Launch ==
    /\ pc = "launch"
    /\ launched' = Append(launched, agent)
    /\ \/ /\ child' = "checks"
          /\ pc' = "wait"
          /\ UNCHANGED <<cres, outcomes, failed_agents>>
       \/ RecordOutcome("raise")
    /\ UNCHANGED gvars
    /\ UNCHANGED cvars
    /\ UNCHANGED <<prog, ticker, date, agents, env, dirExists, files, docx, clock, i,
                   agents_to_run, results, json_files, word_files, conv, skipped,
                   stages, rets, ret, summary, exitCode>>

\* the child's arguments pass its own validation (agents.py, run)
ChildArgsValid == agent \in AGENTS /\ ticker # "" /\ DateParses(date)

\* agents.py run: unknown agent, empty ticker or bad date -> typer.Exit(1)
ChildChecks ==
    /\ pc = "wait"
    /\ child = "checks"
    /\ child' = (IF ChildArgsValid THEN "mkdir" ELSE "exit1")
    /\ UNCHANGED gvars
    /\ UNCHANGED cvars
    /\ UNCHANGED <<prog, pc, ticker, date, agents, env, dirExists, files, docx, clock,
                   i, cres, failed_agents, launched, outcomes, agents_to_run,
                   results, json_files, word_files, conv, skipped, stages, rets,
                   ret, summary, exitCode>>

\* output_path.mkdir(parents=True, exist_ok=True), or it raises -> Exit(1)
ChildMkdir ==
    /\ pc = "wait"
    /\ child = "mkdir"
    /\ \/ /\ dirExists' = TRUE
          /\ child' = "execute"
       \/ /\ child' = "exit1"
          /\ UNCHANGED dirExists
    /\ UNCHANGED gvars
    /\ UNCHANGED cvars
    /\ UNCHANGED <<prog, pc, ticker, date, agents, env, files, docx, clock, i, cres,
                   failed_agents, launched, outcomes, agents_to_run, results,
                   json_files, word_files, conv, skipped, stages, rets, ret,
                   summary, exitCode>>

\* the status execute_agent can return for agent a: only an analyst runs a graph,
\* whose exception is caught and turned into status "error"
Statuses(a) == IF a \in factory_map THEN {"completed", "error"} ELSE {"completed"}

\* TradingAgentsGraph(...) and execute_agent(...): a result, or an exception
ChildExecute ==
    /\ pc = "wait"
    /\ child = "execute"
    /\ \/ \E s \in Statuses(agent) :
             /\ cres' = s
             /\ child' = "open"
       \/ /\ child' = "exit1"
          /\ UNCHANGED cres
    /\ UNCHANGED gvars
    /\ UNCHANGED cvars
    /\ UNCHANGED <<prog, pc, ticker, date, agents, env, dirExists, files, docx, clock,
                   i, failed_agents, launched, outcomes, agents_to_run, results,
                   json_files, word_files, conv, skipped, stages, rets, ret,
                   summary, exitCode>>

\* self.results_dir = self.project_root / "results" / self.ticker / self.date
results_dir == <<"results", ticker, date>>

\* output_path = Path(output_dir) / ticker.upper() / date, with output_dir
\* "results" taken from the working directory, the project root
output_path == <<"results", upper(ticker), IF date = "" THEN Today ELSE date>>

\* the record a task writes; until json.dump has returned the file is truncated
\* and holds no status
Record(a, s, done) ==
    [agent |-> a, stamp |-> clock, cur |-> TRUE,
     status |-> (IF done THEN s ELSE "none"), complete |-> done,
     dir |-> output_path]

\* open(output_file, "w"): the file exists, empty
ChildOpen ==
    /\ pc = "wait"
    /\ child = "open"
    /\ \/ /\ files' = WriteFile(files, Record(agent, cres, FALSE))
          /\ child' = "dump"
       \/ /\ child' = "exit1"
          /\ UNCHANGED files
    /\ UNCHANGED gvars
    /\ UNCHANGED cvars
    /\ UNCHANGED <<prog, pc, ticker, date, agents, env, dirExists, docx, clock, i, cres,
                   failed_agents, launched, outcomes, agents_to_run, results,
                   json_files, word_files, conv, skipped, stages, rets, ret,
                   summary, exitCode>>

\* json.dump(result, f, indent=2) and the close of the file
ChildDump ==
    /\ pc = "wait"
    /\ child = "dump"
    /\ \/ /\ files' = WriteFile(files, Record(agent, cres, TRUE))
          /\ child' = "display"
       \/ /\ child' = "exit1"
          /\ UNCHANGED files
    /\ UNCHANGED gvars
    /\ UNCHANGED cvars
    /\ UNCHANGED <<prog, pc, ticker, date, agents, env, dirExists, docx, clock, i, cres,
                   failed_agents, launched, outcomes, agents_to_run, results,
                   json_files, word_files, conv, skipped, stages, rets, ret,
                   summary, exitCode>>

\* the panels and the summary table are printed; the command returns (code 0)
ChildDisplay ==
    /\ pc = "wait"
    /\ child = "display"
    /\ child' \in {"exit0", "exit1"}
    /\ UNCHANGED gvars
    /\ UNCHANGED cvars
    /\ UNCHANGED <<prog, pc, ticker, date, agents, env, dirExists, files, docx, clock,
                   i, cres, failed_agents, launched, outcomes, agents_to_run,
                   results, json_files, word_files, conv, skipped, stages, rets,
                   ret, summary, exitCode>>

\* subprocess.run returns: result.returncode is read
ChildReturn ==
    /\ pc = "wait"
    /\ child \in {"exit0", "exit1"}
    /\ RecordOutcome(child)
    /\ UNCHANGED gvars
    /\ UNCHANGED cvars
    /\ UNCHANGED <<prog, ticker, date, agents, env, dirExists, files, docx, clock, i,
                   launched, agents_to_run, results, json_files, word_files, conv,
                   skipped, stages, rets, ret, summary, exitCode>>

\* as Timeout, but subprocess.run has no timeout: it returns only when the
\* child has exited
Timeout_none ==
    /\ pc = "wait"
    /\ child \in {"exit0", "exit1"}
    /\ RecordOutcome(child)
    /\ UNCHANGED gvars
    /\ UNCHANGED cvars
    /\ UNCHANGED <<prog, ticker, date, agents, env, dirExists, files, docx, clock, i,
                   launched, agents_to_run, results, json_files, word_files, conv,
                   skipped, stages, rets, ret, summary, exitCode>>

\* subprocess.TimeoutExpired: the child is killed wherever it is
Timeout ==
    /\ pc = "wait"
    /\ child \notin {"idle", "exit0", "exit1"}
    /\ RecordOutcome("timeout")
    /\ UNCHANGED gvars
    /\ UNCHANGED cvars
    /\ UNCHANGED <<prog, ticker, date, agents, env, dirExists, files, docx, clock, i,
                   launched, agents_to_run, results, json_files, word_files, conv,
                   skipped, stages, rets, ret, summary, exitCode>>

\* time.sleep(1), then the next agent of the loop
Sleep ==
    /\ pc = "sleep"
    /\ clock' = clock + 1
    /\ i' = i + 1
    /\ pc' = (IF i < Len(agents) THEN "launch" ELSE "run_agents_return")
    /\ UNCHANGED gvars
    /\ UNCHANGED cvars
    /\ UNCHANGED <<prog, ticker, date, agents, env, dirExists, files, docx, child, cres,
                   failed_agents, launched, outcomes, agents_to_run, results,
                   json_files, word_files, conv, skipped, stages, rets, ret,
                   summary, exitCode>>

\* as run_agents_result, but any failed agent fails the stage
run_agents_result_strict == Len(failed_agents) = 0

\* return len(failed_agents) < len(self.agents)
run_agents_result == Len(failed_agents) < Len(agents)

\* as AfterExecute, but a failed Execute stage ends the run
AfterExecute_gated(ok) == IF ok THEN "discover" ELSE "returned"

\* run, step 2: if not self.run_agents(): "Some agents failed, but continuing..."
AfterExecute(ok) == "discover"

run_agents_return ==
    /\ pc = "run_agents_return"
    /\ rets' = [rets EXCEPT !.execute = Bool(run_agents_result)]
    /\ pc' = AfterExecute(run_agents_result)
    /\ UNCHANGED gvars
    /\ UNCHANGED cvars
    /\ UNCHANGED <<prog, ticker, date, agents, env, dirExists, files, docx, clock, i,
                   child, cres, failed_agents, launched, outcomes, agents_to_run,
                   results, json_files, word_files, conv, skipped, stages, ret,
                   summary, exitCode>>

\* self.results_dir.glob("*.json"), sorted: every file of the directory, by name
Glob(fs) == {Stem(f) : f \in fs}

\* as discover_result, but an empty list is accepted
discover_result_any(found) == TRUE

\* if not self.json_files: return False
discover_result(found) == found # {}

\* run, step 3: if not self.discover_json_files(): return False
AfterDiscover(ok) == IF ok THEN "convert" ELSE "returned"

discover_json_files ==
    /\ pc = "discover"
    /\ stages' = Append(stages, "discover")
    /\ json_files' = (IF dirExists THEN Glob(InDir(files, results_dir)) ELSE json_files)
    /\ LET ok == dirExists /\ discover_result(json_files') IN
         /\ rets' = [rets EXCEPT !.discover = Bool(ok)]
         /\ pc' = AfterDiscover(ok)
         /\ ret' = (IF pc' = "returned" THEN "False" ELSE ret)
    /\ UNCHANGED gvars
    /\ UNCHANGED cvars
    /\ UNCHANGED <<prog, ticker, date, agents, env, dirExists, files, docx, clock, i,
                   child, cres, failed_agents, launched, outcomes, agents_to_run,
                   results, word_files, conv, skipped, summary, exitCode>>

\* the order of sorted() on the file names: by agent id, then by HHMMSS
AlphaOrder ==
    <<"bear", "bull", "fundamentals", "market", "neutral", "news", "risky", "safe",
      "social", "trader">>

Rank(a) == CHOOSE k \in 1..Len(AlphaOrder) : AlphaOrder[k] = a

Before(s, t) == Rank(s[1]) < Rank(t[1]) \/ (s[1] = t[1] /\ s[2] < t[2])

RECURSIVE sorted(_)
sorted(S) ==
    IF S = {} THEN <<>>
    ELSE LET m == CHOOSE x \in S : \A y \in S \ {x} : Before(x, y)
         IN  <<m>> \o sorted(S \ {m})

\* (as batch_json_to_word, but the first exception ends the loop)
RECURSIVE batch_stop_at_failure(_, _)
batch_stop_at_failure(list, fail) ==
    IF list = <<>> \/ Head(list) \in fail THEN {}
    ELSE {Head(list)} \cup batch_stop_at_failure(Tail(list), fail)

\* json_to_word.py, batch_json_to_word(combine=False): one document per record,
\* in sorted order; an exception for one record (those of fail) is printed and
\* the loop goes on with the next record. The result: the documents created.
RECURSIVE batch_json_to_word(_, _)
batch_json_to_word(list, fail) ==
    IF list = <<>> THEN {}
    ELSE (IF Head(list) \in fail THEN {} ELSE {Head(list)})
            \cup batch_json_to_word(Tail(list), fail)

\* a truncated record never renders: json.load raises
Truncated(fs) == {Stem(f) : f \in {g \in fs : ~g.complete}}

\* the documents convert_to_word collects after the per-file conversion:
\* every *.docx of reports_dir but Combined_Analysis.docx
DocxFiles(dir) == {d \in dir : d # Combined}

\* return len(self.word_files) > 0
convert_result(wf) == wf # {}

\* as AfterConvert, but the outcome of the conversion is ignored
AfterConvert_always(ok) == "summary"

\* run, step 4: if not self.convert_to_word(): return False
AfterConvert(ok) == IF ok THEN "summary" ELSE "returned"

\* run, step 4, first half: the per-file conversion process
\*   "exit0": the converter returned code 0
\*   "exit1": the converter failed before its loop (import, mkdir) and exits 1
\*   "raise": subprocess.run raised (launch error, or the timeout after the
\*            converter had gone through n records)
convert_to_word ==
    /\ pc = "convert"
    /\ stages' = Append(stages, "transform")
    /\ LET recs == InDir(files, results_dir)
           list == sorted(Glob(recs))
       IN  \E o \in {"exit0", "exit1", "raise"}, fail \in SUBSET Glob(recs) :
            \E n \in 0..Len(list) :
              /\ Truncated(recs) \subseteq fail
              /\ Cardinality(fail \ Truncated(recs)) <= MaxSkipped
              /\ o = "exit0" => n = Len(list)
              /\ o = "exit1" => n = 0
              /\ conv' = Append(conv, o)
              /\ docx' = docx \cup batch_json_to_word(SubSeq(list, 1, n), fail)
              /\ IF o = "exit0"
                   THEN /\ skipped' = fail
                        /\ word_files' = word_files \cup DocxFiles(docx')
                        /\ pc' = "combined"
                        /\ UNCHANGED <<rets, ret>>
                   ELSE /\ rets' = [rets EXCEPT !.transform = "False"]
                        /\ pc' = AfterConvert(FALSE)
                        /\ ret' = (IF pc' = "returned" THEN "False" ELSE ret)
                        /\ UNCHANGED <<skipped, word_files>>
    /\ UNCHANGED gvars
    /\ UNCHANGED cvars
    /\ UNCHANGED <<prog, ticker, date, agents, env, dirExists, files, clock, i, child,
                   cres, failed_agents, launched, outcomes, agents_to_run, results,
                   json_files, summary, exitCode>>

\* run, step 4, second half: the combined document; its failure is a warning
convert_combined ==
    /\ pc = "combined"
    /\ \E o \in {"exit0", "exit1", "raise"} :
          /\ conv' = Append(conv, o)
          /\ IF o = "exit0"
               THEN /\ docx' = docx \cup {Combined}
                    /\ word_files' = word_files \cup {Combined}
               ELSE UNCHANGED <<docx, word_files>>
    /\ rets' = [rets EXCEPT !.transform = Bool(convert_result(word_files'))]
    /\ pc' = AfterConvert(convert_result(word_files'))
    /\ ret' = (IF pc' = "returned" THEN "False" ELSE ret)
    /\ UNCHANGED gvars
    /\ UNCHANGED cvars
    /\ UNCHANGED <<prog, ticker, date, agents, env, dirExists, files, clock, i, child,
                   cres, failed_agents, launched, outcomes, agents_to_run, results,
                   json_files, skipped, stages, summary, exitCode>>

\* the EXECUTION SUMMARY table: counts only, no row per agent
SummaryTable ==
    [kind |-> "counts", agentsRun |-> Len(agents),
     jsonFiles |-> Cardinality(json_files), wordDocs |-> Cardinality(word_files),
     rows |-> <<>>]

\* run, step 5: self.generate_summary(); return True
generate_summary ==
    /\ pc = "summary"
    /\ stages' = Append(stages, "summarize")
    /\ summary' = <<SummaryTable>>
    /\ ret' = "True"
    /\ pc' = "returned"
    /\ UNCHANGED gvars
    /\ UNCHANGED cvars
    /\ UNCHANGED <<prog, ticker, date, agents, env, dirExists, files, docx, clock, i,
                   child, cres, failed_agents, launched, outcomes, agents_to_run,
                   results, json_files, word_files, conv, skipped, rets, exitCode>>

\* as ExitStatus, with another code for a failure
ExitStatus_two(success) == IF success THEN 0 ELSE 2

\* main: sys.exit(0 if success else 1)
ExitStatus(success) == IF success THEN 0 ELSE 1

main_exit ==
    /\ prog = "master"
    /\ pc = "returned"
    /\ exitCode' = ExitStatus(ret = "True")
    /\ pc' = "done"
    /\ UNCHANGED gvars
    /\ UNCHANGED cvars
    /\ UNCHANGED <<prog, ticker, date, agents, env, dirExists, files, docx, clock, i,
                   child, cres, failed_agents, launched, outcomes, agents_to_run,
                   results, json_files, word_files, conv, skipped, stages, rets,
                   ret, summary>>

-----------------------------------------------------------------------------
(* run_all_agents.py: run *)

\* lines 79-102: the date, the ticker and the agent list
RA_DateValid == date = "" \/ DateParses(date)

RA_BadAgents == {k \in 1..Len(agents) : agents[k] \notin AGENTS}

RA_Valid == RA_DateValid /\ (agents = <<>> \/ RA_BadAgents = {})

RA_validate ==
    /\ prog = "run_all"
    /\ pc = "ra_validate"
    /\ stages' = Append(stages, "validate")
    /\ rets' = [rets EXCEPT !.validate = Bool(RA_Valid)]
    /\ date' = (IF date = "" THEN Today ELSE date)
    /\ ticker' = (IF RA_DateValid THEN upper(ticker) ELSE ticker)
    /\ IF RA_Valid
         THEN /\ agents_to_run' = (IF agents = <<>> THEN DEFAULT_AGENT_ORDER ELSE agents)
              /\ pc' = "ra_setup"
              /\ UNCHANGED exitCode
         ELSE /\ exitCode' = 1
              /\ pc' = "done"
              /\ UNCHANGED agents_to_run
    /\ UNCHANGED gvars
    /\ UNCHANGED cvars
    /\ UNCHANGED <<prog, agents, env, dirExists, files, docx, clock, i, child, cres,
                   failed_agents, launched, outcomes, results, json_files,
                   word_files, conv, skipped, ret, summary>>

\* lines 115-123: TradingAgentsGraph(...) and out_root.mkdir; an exception here
\* is not caught and ends the process
RA_setup ==
    /\ pc = "ra_setup"
    /\ \/ /\ dirExists' = TRUE
          /\ stages' = Append(stages, "execute")
          /\ pc' = "ra_loop"
          /\ UNCHANGED exitCode
       \/ /\ exitCode' = 1
          /\ pc' = "done"
          /\ UNCHANGED <<dirExists, stages>>
    /\ UNCHANGED gvars
    /\ UNCHANGED cvars
    /\ UNCHANGED <<prog, ticker, date, agents, env, files, docx, clock, i, child, cres,
                   failed_agents, launched, outcomes, agents_to_run, results,
                   json_files, word_files, conv, skipped, rets, ret, summary>>

\* the turns of the loop, among those of history h, that ended other than in a
\* record of status "completed"
Errors(h) == Cardinality({k \in 1..Len(h) : h[k] # "completed"})

\* the entry appended to results
Result(a, st, info) == [agent |-> a, status |-> st, info |-> info]

\* lines 127-153, one turn of the loop: execute_agent, the file, results.append.
\*   "completed": the record is written; its status is execute_agent's
\*   "raise"    : execute_agent or open raised; nothing is written
\*   "dump"     : json.dump raised; the truncated file stays
RA_task ==
    /\ pc = "ra_loop"
    /\ i <= Len(agents_to_run)
    /\ LET a == agents_to_run[i] IN
         /\ launched' = Append(launched, a)
         /\ \/ \E s \in Statuses(a) :
                  /\ files' = WriteFile(files, Record(a, s, TRUE))
                  /\ results' = Append(results, Result(a, "completed", <<a, clock>>))
                  /\ outcomes' = Append(outcomes, s)
            \/ /\ UNCHANGED files
               /\ results' = Append(results, Result(a, "error", <<"Exception", 0>>))
               /\ outcomes' = Append(outcomes, "raise")
            \/ /\ files' = WriteFile(files, Record(a, "none", FALSE))
               /\ results' = Append(results, Result(a, "error", <<"Exception", 0>>))
               /\ outcomes' = Append(outcomes, "raise")
    /\ Errors(outcomes') <= MaxErrors
    /\ i' = i + 1
    /\ UNCHANGED gvars
    /\ UNCHANGED cvars
    /\ UNCHANGED <<prog, pc, ticker, date, agents, env, dirExists, docx, clock, child,
                   cres, failed_agents, agents_to_run, json_files, word_files, conv,
                   skipped, stages, rets, ret, summary, exitCode>>

\* time passes while the loop runs (no sleep between the agents)
Tick ==
    /\ pc = "ra_loop"
    /\ clock < MaxTicks
    /\ clock' = clock + 1
    /\ UNCHANGED gvars
    /\ UNCHANGED cvars
    /\ UNCHANGED <<prog, pc, ticker, date, agents, env, dirExists, files, docx, i, child,
                   cres, failed_agents, launched, outcomes, agents_to_run, results,
                   json_files, word_files, conv, skipped, stages, rets, ret,
                   summary, exitCode>>

\* as BatchSummary, without the rows of the tasks that raised
BatchSummary_completed ==
    [kind |-> "table", rows |-> SelectSeq(results, LAMBDA r : r.status = "completed")]

\* lines 155-172: the Batch Summary table, one row per entry of results
BatchSummary == [kind |-> "table", rows |-> results]

RA_summary ==
    /\ pc = "ra_loop"
    /\ i > Len(agents_to_run)
    /\ stages' = Append(stages, "summarize")
    /\ summary' = <<BatchSummary>>
    /\ exitCode' = 0
    /\ pc' = "done"
    /\ UNCHANGED gvars
    /\ UNCHANGED cvars
    /\ UNCHANGED <<prog, ticker, date, agents, env, dirExists, files, docx, clock, i,
                   child, cres, failed_agents, launched, outcomes, agents_to_run,
                   results, json_files, word_files, conv, skipped, rets, ret>>

Next ==
    \/ validate_setup
    \/ run_agents_begin
    \/ Launch
    \/ ChildChecks
    \/ ChildMkdir
    \/ ChildExecute
    \/ ChildOpen
    \/ ChildDump
    \/ ChildDisplay
    \/ ChildReturn
    \/ Timeout
    \/ Sleep
    \/ run_agents_return
    \/ discover_json_files
    \/ convert_to_word
    \/ convert_combined
    \/ generate_summary
    \/ main_exit
    \/ RA_validate
    \/ RA_setup
    \/ RA_task
    \/ Tick
    \/ RA_summary

Spec == Init /\ [][Next]_vars

-----------------------------------------------------------------------------
(* agents.py: execute_agent, one call followed node by node                *)
(*                                                                         *)
(* The analyst graph of lines 436-459:                                     *)
(*   START -> analyst -> (should_continue_<agent>) -> tools | Msg Clear    *)
(*   tools -> analyst,  Msg Clear -> END                                   *)
(* The analyst node, the continuation rule, the tool node's results and    *)
(* the initial graph state are code of the tradingagents package.          *)

\* the agent ids execute_agent is called with: two analysts, a placeholder
\* agent and an id that is no key of AGENTS
AgentTypes == {"market", "news", "bull", "bogus"}

\* the text of a message of the analyst: none, or some report
Texts == {"", "report"}

Min(a, b) == IF a < b THEN a ELSE b

\* the orchestrators are not running
OrchestratorIdle ==
    /\ prog = "execute_agent"
    /\ pc = "call"
    /\ InitCommon
    /\ dirExists = FALSE
    /\ env = Paths
    /\ docx = {}
    /\ ticker = "INTC"
    /\ date = Today
    /\ agents = <<>>

\* lines 410-412: result_obj = None; analysis_text = None; status = "completed"
TaskInit ==
    /\ OrchestratorIdle
    /\ GitIdle
    /\ agent_type \in AgentTypes
    /\ budget \in 0..MaxBudget
    /\ node = "entry"
    /\ messages = <<>>
    /\ toolCallsRemaining = 0
    /\ produced = 0
    /\ called = 0
    /\ report = "None"
    /\ status = "completed"
    /\ analysis_text = "None"
    /\ raisedAt = "nowhere"
    /\ record = <<>>

ovars == <<prog, pc, ticker, date, agents, env, dirExists, files, docx, clock, i,
           child, cres, failed_agents, launched, outcomes, agents_to_run,
           results, json_files, word_files, conv, skipped, stages, rets, ret,
           summary, exitCode>>

\* lines 469-471: except Exception as e: status = "error";
\* analysis_text = f"Agent execution failed: {e}"
Except(where) ==
    /\ status' = "error"
    /\ analysis_text' = "Agent execution failed"
    /\ raisedAt' = where
    /\ node' = "return"

\* line 414 and lines 472-474: an analyst gets its graph; another agent gets
\* the placeholder text, whose AGENTS[agent_type] raises KeyError for an
\* unknown id (outside the try block)
Enter ==
    /\ node = "entry"
    /\ IF agent_type \in factory_map
         THEN /\ node' = "build"
              /\ UNCHANGED <<analysis_text, raisedAt>>
         ELSE IF agent_type \in AGENTS
                THEN /\ analysis_text' = "placeholder"
                     /\ node' = "return"
                     /\ UNCHANGED raisedAt
                ELSE /\ raisedAt' = "placeholder"
                     /\ node' = "raised"
                     /\ UNCHANGED analysis_text
    /\ UNCHANGED <<agent_type, budget, messages, toolCallsRemaining, produced,
                   called, report, status, record>>
    /\ UNCHANGED ovars
    /\ UNCHANGED cvars

\* workflow.add_edge(START, title)
EdgeFromStart == "analyst"

\* as EdgeFromTools, but the edge leads to the Msg Clear node
EdgeFromTools_clear == "clear"

\* workflow.add_edge(f"tools_{agent_type}", title)
EdgeFromTools == "analyst"

\* as EdgeFromClear, but the edge leads back to the analyst
EdgeFromClear_loop == "analyst"

\* workflow.add_edge(f"Msg Clear {agent_type.capitalize()}", END)
EdgeFromClear == "END"

\* propagator.create_initial_state(ticker, date): an empty message log and the
\* tool calls the execution may make
create_initial_state ==
    /\ messages' = <<>>
    /\ toolCallsRemaining' = budget

\* lines 416-457: the nodes, the graph and the initial state are built, or one
\* of the constructors raises
Build ==
    /\ node = "build"
    /\ \/ /\ create_initial_state
          /\ node' = EdgeFromStart
          /\ UNCHANGED <<status, analysis_text, raisedAt>>
       \/ /\ Except("build")
          /\ UNCHANGED <<messages, toolCallsRemaining>>
    /\ UNCHANGED <<agent_type, budget, produced, called, report, record>>
    /\ UNCHANGED ovars
    /\ UNCHANGED cvars

\* a message of the analyst: its text and the tool invocations it requests
ProducerMessage(text, calls) == [role |-> "producer", text |-> text, calls |-> calls]

\* the analyst node: the next message of the analyst is appended to the log,
\* or the reasoning collaborator raises (graph_single.invoke raises, line 459)
Produce ==
    /\ node = "analyst"
    /\ produced' = produced + 1
    /\ \/ \E text \in Texts, calls \in 0..MaxRequested :
             /\ messages' = Append(messages, ProducerMessage(text, calls))
             /\ node' = "decide"
             /\ UNCHANGED <<status, analysis_text, raisedAt>>
       \/ /\ Except("produce")
          /\ UNCHANGED messages
    /\ UNCHANGED <<agent_type, budget, toolCallsRemaining, called, report, record>>
    /\ UNCHANGED ovars
    /\ UNCHANGED cvars

\* the tool invocations the latest message of the log requests
Requested(msgs) == msgs[Len(msgs)].calls

\* as should_continue, but the counter is not consulted
should_continue_unbounded(a, msgs, remaining) ==
    IF Requested(msgs) > 0 THEN "tools" ELSE "clear"

\* ConditionalLogic.should_continue_<a>: on to the tools iff the latest message
\* requested at least one tool invocation and tool calls remain
should_continue(a, msgs, remaining) ==
    IF Requested(msgs) > 0 /\ remaining > 0 THEN "tools" ELSE "clear"

\* lines 444-448: the conditional edge out of the analyst node
Decide ==
    /\ node = "decide"
    /\ node' = should_continue(agent_type, messages, toolCallsRemaining)
    /\ UNCHANGED <<agent_type, budget, messages, toolCallsRemaining, produced,
                   called, report, status, analysis_text, raisedAt, record>>
    /\ UNCHANGED ovars
    /\ UNCHANGED cvars

\* the messages of the tool node for n calls, those of errs having failed
ToolMessages(n, errs) ==
    [k \in 1..n |->
        [role |-> "tool", text |-> (IF k \in errs THEN "error" ELSE "output"),
         calls |-> 0]]

\* as Decrement, but one call too many is counted
Decrement_twice(remaining, n) == IF remaining - n - 1 < 0 THEN 0 ELSE remaining - n - 1

\* the counter after n tool calls
Decrement(remaining, n) == remaining - n

\* as InvokeTools, but the error of a tool call is raised out of the graph
InvokeTools_raising ==
    /\ node = "tools"
    /\ LET n == Min(Requested(messages), toolCallsRemaining) IN
         \E errs \in SUBSET (1..n) :
            /\ toolCallsRemaining' = Decrement(toolCallsRemaining, n)
            /\ called' = called + n
            /\ IF errs = {}
                 THEN /\ messages' = messages \o ToolMessages(n, errs)
                      /\ node' = EdgeFromTools
                      /\ UNCHANGED <<status, analysis_text, raisedAt>>
                 ELSE /\ Except("tools")
                      /\ UNCHANGED messages
    /\ UNCHANGED <<agent_type, budget, produced, report, record>>
    /\ UNCHANGED ovars
    /\ UNCHANGED cvars

\* the tool node: a call for each requested invocation while tool calls remain,
\* one less remaining per call; the result or the error of each call is
\* appended as a tool message
InvokeTools ==
    /\ node = "tools"
    /\ LET n == Min(Requested(messages), toolCallsRemaining) IN
         \E errs \in SUBSET (1..n) :
            /\ messages' = messages \o ToolMessages(n, errs)
            /\ toolCallsRemaining' = Decrement(toolCallsRemaining, n)
            /\ called' = called + n
    /\ node' = EdgeFromTools
    /\ UNCHANGED <<agent_type, budget, produced, report, status, analysis_text,
                   raisedAt, record>>
    /\ UNCHANGED ovars
    /\ UNCHANGED cvars

RECURSIVE LastProducerText(_)
\* the text of the last message of the analyst in the log
LastProducerText(msgs) ==
    IF msgs = <<>> THEN ""
    ELSE IF msgs[Len(msgs)].role = "producer" THEN msgs[Len(msgs)].text
         ELSE LastProducerText(SubSeq(msgs, 1, Len(msgs) - 1))

\* the Msg Clear node, then END: the report of the final state is the text of
\* the last message of the analyst
Finalize ==
    /\ node = "clear"
    /\ report' = LastProducerText(messages)
    /\ node' = EdgeFromClear
    /\ UNCHANGED <<agent_type, budget, messages, toolCallsRemaining, produced,
                   called, status, analysis_text, raisedAt, record>>
    /\ UNCHANGED ovars
    /\ UNCHANGED cvars

\* line 468: analysis_text = final_state.get(report_key_map[agent_type])
Extract ==
    /\ node = "END"
    /\ analysis_text' = report
    /\ node' = "return"
    /\ UNCHANGED <<agent_type, budget, messages, toolCallsRemaining, produced,
                   called, report, status, raisedAt, record>>
    /\ UNCHANGED ovars
    /\ UNCHANGED cvars

\* as ResultRecord, but a record whose analysis is empty is given status "error"
ResultRecord_strict(a, st, text) ==
    [agent |-> a, status |-> (IF text \in {"", "None"} THEN "error" ELSE st),
     analysis |-> text]

\* lines 476-484: the dictionary returned
ResultRecord(a, st, text) == [agent |-> a, status |-> st, analysis |-> text]

Return ==
    /\ node = "return"
    /\ record' = <<ResultRecord(agent_type, status, analysis_text)>>
    /\ node' = "returned"
    /\ UNCHANGED <<agent_type, budget, messages, toolCallsRemaining, produced,
                   called, report, status, analysis_text, raisedAt>>
    /\ UNCHANGED ovars
    /\ UNCHANGED cvars

TaskNext ==
    \/ Enter
    \/ Build
    \/ Produce
    \/ Decide
    \/ InvokeTools
    \/ Finalize
    \/ Extract
    \/ Return

TaskSpec == TaskInit /\ [][TaskNext]_vars

-----------------------------------------------------------------------------
(* Vocabulary of the properties *)

Master == prog = "master"

RunAll == prog = "run_all"

\* the tasks of the batch, in plan order
Plan == IF Master THEN agents ELSE agents_to_run

\* the turns of the loop whose task timed out, exited non-zero or raised
FailedTurns == {k \in 1..Len(outcomes) : outcomes[k] \in {"timeout", "exit1", "raise"}}

RECURSIVE Select(_, _, _)
\* the subsequence of seq at the positions of K, from position k on
Select(seq, K, k) ==
    IF k > Len(seq) THEN <<>>
    ELSE (IF k \in K THEN <<seq[k]>> ELSE <<>>) \o Select(seq, K, k + 1)

Started(st) == \E k \in 1..Len(stages) : stages[k] = st

\* the orchestrator has left the loop over the agents
ExecuteEnded ==
    \/ Master /\ rets.execute # "unset"
    \/ RunAll /\ Started("execute") /\ i > Len(agents_to_run)

StageOrder == <<"validate", "execute", "discover", "transform", "summarize">>

IsPrefix(a, b) == Len(a) <= Len(b) /\ \A k \in 1..Len(a) : a[k] = b[k]

-----------------------------------------------------------------------------
(* Execute stage *)

\* C1: in the Execute stage a task that times out, exits non-zero or raises is
\* recorded as a failure of that task only and does not abort the batch:
\* the tasks launched so far are always a prefix of the plan, each launched
\* once, the failures recorded are exactly the failed turns, and once the loop
\* has been left every task of the plan has been launched.
C1_EveryTaskLaunchedOnce ==
    /\ IsPrefix(launched, Plan)
    /\ ExecuteEnded => launched = Plan /\ Len(outcomes) = Len(Plan)
    /\ (Master /\ pc \in {"discover", "convert", "combined", "summary"})
          => launched = Plan
    /\ Master => failed_agents = Select(launched, FailedTurns, 1)
    /\ RunAll =>
          /\ Len(results) = Len(launched)
          /\ \A k \in 1..Len(results) :
                /\ results[k].agent = launched[k]
                /\ results[k].status = "error" <=> k \in FailedTurns

C1_Witness ==
    /\ Master
    /\ pc = "discover"
    /\ outcomes = <<"timeout", "exit1", "raise">>
    /\ launched = agents
    /\ failed_agents = agents

\* C2: if Validate fails (a collaborator path is missing, the ticker is empty
\* or the date does not parse), run returns False, no task process has been
\* launched and neither Discover, Transform nor Summarize has run.
C2_ValidateFailureAborts ==
    (Master /\ rets.validate # "unset") =>
        /\ rets.validate = "False" <=>
              (env # Paths \/ ticker = "" \/ date # "2025-12-25")
        /\ rets.validate = "False" =>
              /\ launched = <<>>
              /\ child = "idle"
              /\ stages = <<"validate">>
              /\ ret = "False"
              /\ files \in {{}, {StaleFile}}
              /\ pc = "done" => exitCode = 1

C2_Witness ==
    /\ Master
    /\ pc = "done"
    /\ rets.validate = "False"
    /\ env = Paths
    /\ ticker = "INTC"
    /\ date = "25/12/2025"
    /\ ret = "False"

\* C3: a plan that contains an unknown task identifier is rejected before any
\* task process is spawned: exit code 1 and no record written.
C3_UnknownTaskRejected ==
    (\E k \in 1..Len(agents) : agents[k] \notin AGENTS) =>
        /\ launched = <<>>
        /\ \A f \in files : ~f.cur
        /\ pc = "done" => exitCode = 1

-----------------------------------------------------------------------------
(* Discover stage *)

\* C4: if Discover finds zero records (the results directory is missing or
\* holds no *.json file), run returns False (exit code 1) and Transform and
\* Summarize never run.
C4_DiscoverNothingAborts ==
    (Master /\ Started("discover") /\ (~dirExists \/ files = {})) =>
        /\ rets.discover = "False"
        /\ json_files = {}
        /\ ret = "False"
        /\ pc \in {"returned", "done"}
        /\ ~Started("transform")
        /\ ~Started("summarize")
        /\ pc = "done" => exitCode = 1

C4_Witness ==
    /\ Master
    /\ pc = "done"
    /\ Started("discover")
    /\ dirExists
    /\ files = {}
    /\ exitCode = 1

-----------------------------------------------------------------------------
(* The pipeline of run *)

\* what the stage before st returned
RetBefore(st) ==
    CASE st = "execute" -> rets.validate
      [] st = "discover" -> rets.execute
      [] st = "transform" -> rets.discover
      [] st = "summarize" -> rets.transform
      [] OTHER -> "True"

\* C5, as claimed: the five stages run strictly in the order Validate, Execute,
\* Discover, Transform, Summarize, and each stage starts only if the stage
\* before it returned a true outcome.
C5_EveryStageGated ==
    Master =>
        /\ IsPrefix(stages, StageOrder)
        /\ \A k \in 1..Len(stages) : RetBefore(stages[k]) = "True"

\* C5, amended: the stages run strictly in that order; Execute starts only if
\* Validate returned True, Transform only if Discover returned True, Summarize
\* only if Transform returned True; Discover starts once Execute has returned,
\* whatever it returned.
C5_StagesOrderedAndGated ==
    Master =>
        /\ IsPrefix(stages, StageOrder)
        /\ \A k \in 1..Len(stages) :
              IF stages[k] = "discover"
                THEN RetBefore(stages[k]) \in {"True", "False"}
                ELSE RetBefore(stages[k]) = "True"
        /\ (pc = "done" /\ rets.validate = "True") => Started("discover")

C5_Witness ==
    /\ Master
    /\ pc = "done"
    /\ stages = StageOrder
    /\ rets.execute = "False"
    /\ ret = "True"

\* C6: run_agents returns False if and only if every task of the plan failed;
\* with at least one task that returned code 0 it returns True.
C6_ExecuteFailsIffAllFailed ==
    (Master /\ rets.execute # "unset") =>
        /\ Len(outcomes) = Len(agents)
        /\ Len(agents) >= 1
        /\ rets.execute = "False" <=>
              \A k \in 1..Len(outcomes) : outcomes[k] # "exit0"

C6_Witness ==
    /\ Master
    /\ rets.execute = "True"
    /\ Len(outcomes) = 3
    /\ outcomes[1] = "timeout"
    /\ outcomes[2] = "exit1"
    /\ outcomes[3] = "exit0"

\* at least one task of the batch completed (its process returned code 0)
SomeCompleted == \E k \in 1..Len(outcomes) : outcomes[k] = "exit0"

\* C7, as claimed: the exit code is 0 if at least one task completed, 1 if
\* Validate or Discover failed, and 2 if Execute produced zero completions.
C7_ExitCodesAsClaimed ==
    (Master /\ pc = "done") =>
        /\ SomeCompleted => exitCode = 0
        /\ (rets.validate = "False" \/ rets.discover = "False") => exitCode = 1
        /\ (Started("execute") /\ ~SomeCompleted) => exitCode = 2

\* C7, amended: the exit code is 0 if Validate, Discover and Transform all
\* succeeded (run returned True), whether or not a task completed, and 1 in
\* every other case; zero completions in Execute do not produce a code of
\* their own.
C7_ExitCodes ==
    (Master /\ pc = "done") =>
        /\ exitCode \in {0, 1}
        /\ exitCode = 0 <=> ret = "True"
        /\ exitCode = 0 <=>
              /\ rets.validate = "True"
              /\ rets.discover = "True"
              /\ rets.transform = "True"
        /\ (rets.validate = "False" \/ rets.discover = "False") => exitCode = 1

C7_Witness ==
    /\ Master
    /\ pc = "done"
    /\ Started("execute")
    /\ ~SomeCompleted
    /\ rets.discover = "False"
    /\ exitCode = 1

\* C8, as claimed: only a Validate failure or a Discover failure makes run
\* abort and return False; a task failure or a rendering failure never does.
C8_OnlyValidateOrDiscoverAbort ==
    (Master /\ ret = "False") =>
        (rets.validate = "False" \/ rets.discover = "False")

\* C8, amended: run returns False only after a failure of Validate, of
\* Discover or of the Transform stage as a whole, and Transform fails only if
\* a converter process failed (the per-file one, or the combined one with no
\* document collected); a task failure never makes run return False, and a
\* record that fails to render does not by itself.
C8_WhatAborts ==
    Master =>
        /\ ret = "False" <=>
              (rets.validate = "False" \/ rets.discover = "False"
                 \/ rets.transform = "False")
        /\ rets.transform = "False" =>
              \/ conv[1] # "exit0"
              \/ Len(conv) = 2 /\ conv[2] # "exit0" /\ word_files = {}
        /\ (pc = "done" /\ rets.execute = "False") =>
              (Started("discover") /\ ret = Bool(rets.discover = "True"
                                                  /\ rets.transform = "True"))

C8_Witness ==
    /\ Master
    /\ pc = "done"
    /\ ret = "False"
    /\ rets.discover = "True"
    /\ rets.transform = "False"
    /\ conv = <<"exit1">>

-----------------------------------------------------------------------------
(* Transform stage *)

\* C9: in the Transform stage a rendering failure for one discovered record is
\* skipped: once the per-file conversion has returned code 0, every other
\* discovered record has its document, collected in word_files, and the failure
\* does not abort the batch (with one document rendered, or the combined
\* conversion done, convert_to_word returns True).
C9_RenderFailureSkipped ==
    (Master /\ conv # <<>> /\ conv[1] = "exit0") =>
        /\ \A r \in json_files \ skipped : r \in word_files /\ r \in docx
        /\ json_files \ skipped # {} => rets.transform # "False"
        /\ conv = <<"exit0", "exit0">> => rets.transform = "True"
        /\ rets.transform = "True" => pc \in {"summary", "returned", "done"}
        /\ (pc = "done" /\ rets.transform = "True") => ret = "True"

C9_Witness ==
    /\ Master
    /\ pc = "done"
    /\ conv = <<"exit0", "exit1">>
    /\ Cardinality(json_files) = 3
    /\ Cardinality(skipped) = 1
    /\ \E r \in skipped : sorted(json_files)[1] = r
    /\ ret = "True"

-----------------------------------------------------------------------------
(* Summarize stage *)

\* the final summary tells of every task of the plan whether it completed
SummaryTellsTasks ==
    /\ summary # <<>>
    /\ Len(summary[1].rows) = Len(Plan)
    /\ \A k \in 1..Len(Plan) :
          /\ summary[1].rows[k].agent = Plan[k]
          /\ summary[1].rows[k].status = "error" <=> k \in FailedTurns

-----------------------------------------------------------------------------
(* The outcome of the Execute stage *)

\* every task of the batch ended well for the orchestrator: its process
\* returned code 0 (master), its turn raised nothing (run_all)
AllSucceeded == Len(outcomes) = Len(Plan) /\ FailedTurns = {}

\* the outcome accumulated by the loop has one entry per task of the plan, in
\* plan order, with the status the orchestrator saw: for run_all the list
\* results; for master the list failed_agents, a task absent from it having
\* completed
PerTaskOutcome ==
    /\ Len(outcomes) = Len(Plan)
    /\ launched = Plan
    /\ RunAll =>
          /\ Len(results) = Len(Plan)
          /\ \A k \in 1..Len(Plan) :
                /\ results[k].agent = Plan[k]
                /\ results[k].status = (IF k \in FailedTurns THEN "error"
                                        ELSE "completed")
    /\ Master =>
          /\ failed_agents = Select(agents, FailedTurns, 1)
          /\ Len(agents) - Len(failed_agents) =
                Cardinality({k \in 1..Len(outcomes) : outcomes[k] = "exit0"})

\* C11, as claimed: when the Execute stage ends the accumulated outcome has one
\* entry per requested task, in plan order, with the task's status, and when
\* every task succeeds every entry is completed and the exit code is 0.
C11_AllSucceedExitZero ==
    ExecuteEnded =>
        /\ PerTaskOutcome
        /\ (pc = "done" /\ AllSucceeded) => exitCode = 0

\* C11, amended: when the Execute stage ends the accumulated outcome has one
\* entry per requested task, in plan order, with the status the orchestrator
\* saw; when every task succeeds no task is recorded as failed, run_all_agents
\* exits with code 0, and master_workflow finds at least one record and exits
\* with code 0 exactly when the Transform stage succeeds too.
C11_PerTaskOutcomeKept ==
    ExecuteEnded =>
        /\ PerTaskOutcome
        /\ AllSucceeded =>
              /\ Master => failed_agents = <<>> /\ rets.execute = "True"
              /\ RunAll => \A k \in 1..Len(results) : results[k].status = "completed"
              /\ pc = "done" =>
                    /\ RunAll => exitCode = 0
                    /\ Master => /\ rets.discover = "True"
                                 /\ exitCode = 0 <=> rets.transform = "True"

C11_Witness ==
    /\ Master
    /\ pc = "done"
    /\ agents = <<"market", "fundamentals", "news">>
    /\ outcomes = <<"exit0", "exit0", "exit0">>
    /\ failed_agents = <<>>
    /\ rets.transform = "True"
    /\ exitCode = 0

\* C12: the tasks are launched one after the other in plan order: a task is
\* launched only once the process of every task launched before it has exited
\* or been timed out, so at most one task process runs at any time.
C12_OneProcessAtATime ==
    Master =>
        /\ IsPrefix(launched, agents)
        /\ child # "idle" <=> pc = "wait"
        /\ Len(launched) = Len(outcomes) + (IF pc = "wait" THEN 1 ELSE 0)
        /\ pc = "launch" => Len(outcomes) = i - 1 /\ Len(launched) = i - 1
        /\ pc = "wait" => Len(launched) = i /\ launched[i] = agents[i]

C12_Witness ==
    /\ Master
    /\ pc = "wait"
    /\ child = "execute"
    /\ i = 2
    /\ outcomes = <<"timeout">>

\* C13: when a task's process exceeds the timeout the task is recorded as
\* failed and no record written by that task exists, wherever in the task the
\* timeout strikes; with a single-task plan Discover then finds nothing and
\* the run ends with exit code 1.
C13_TimeoutLeavesNoRecord ==
    Master =>
        /\ \A k \in 1..Len(outcomes) :
              outcomes[k] = "timeout" =>
                  /\ k \in FailedTurns
                  /\ ~ \E f \in files : f.cur /\ f.stamp = k - 1
        /\ (pc = "done" /\ outcomes = <<"timeout">>) =>
              /\ json_files = {}
              /\ exitCode = 1

\* C20: no task id is executed more than once in one batch run.
C20_NoTaskExecutedTwice ==
    \A j, k \in 1..Len(launched) : j # k => launched[j] # launched[k]

-----------------------------------------------------------------------------
(* The task graph of execute_agent *)

TaskRun == prog = "execute_agent"

\* the call of execute_agent is over
Finished == node \in {"returned", "raised"}

\* the graph has been left through Msg Clear and END
Finalized == report # "None"

\* the tool messages of the log
ToolLog == SelectSeq(messages, LAMBDA m : m.role = "tool")

\* C14: whatever the reasoning collaborator and the tools do, an execution
\* makes at most budget + 1 steps of the analyst node (and at most budget tool
\* calls), it is never stuck, and it leaves the cycle for good: through
\* Msg Clear (Finalize), or through the except clause when the collaborator
\* raised.
C14_ProduceStepsBounded ==
    TaskRun =>
        /\ produced <= budget + 1
        /\ called <= budget
        /\ Finished \/ ENABLED TaskNext
        /\ (Finalized \/ raisedAt \in {"build", "produce"}) =>
              node \in {"END", "return", "returned"}
        /\ (node = "returned" /\ agent_type \in factory_map) =>
              (Finalized \/ raisedAt \in {"build", "produce"})

C14_Witness ==
    /\ TaskRun
    /\ node = "returned"
    /\ budget = 2
    /\ produced = 3
    /\ Finalized
    /\ record[1].status = "completed"

\* C15: the counter toolCallsRemaining is never negative and never increases:
\* the tool node takes one off it for each tool call it makes (as many tool
\* messages are appended), and no other step of the graph changes it.
C15_CounterOnlyDecreases ==
    [][(TaskRun /\ node # "build") =>
          /\ toolCallsRemaining >= 0
          /\ toolCallsRemaining' >= 0
          /\ toolCallsRemaining' <= toolCallsRemaining
          /\ node # "tools" => toolCallsRemaining' = toolCallsRemaining /\ called' = called
          /\ node = "tools" =>
                /\ called' > called
                /\ toolCallsRemaining' = toolCallsRemaining - (called' - called)
                /\ Len(messages') = Len(messages) + (called' - called)]_vars

C15_Witness ==
    /\ TaskRun
    /\ budget = 2
    /\ toolCallsRemaining = 0
    /\ called = 2
    /\ Len(messages) = 4
    /\ messages[1].calls = 1
    /\ messages[3].calls = 2

\* C16: after a step of the analyst node the graph goes on to the tools iff
\* the latest message requested at least one tool invocation and tool calls
\* remain, and to Msg Clear (Finalize) in every other case; the tool node
\* always leads back to the analyst node; the same for every analyst.
C16_ContinuationRule ==
    [][TaskRun =>
          /\ node = "analyst" => node' \in {"decide", "return"}
          /\ node = "decide" =>
                /\ node' \in {"tools", "clear"}
                /\ node' = "tools" <=> (Requested(messages) > 0 /\ toolCallsRemaining > 0)
          /\ node = "tools" => node' = "analyst"
          /\ node = "clear" => node' = "END"]_vars

C16_Witness ==
    /\ TaskRun
    /\ agent_type = "news"
    /\ node = "clear"
    /\ Requested(messages) > 0
    /\ toolCallsRemaining = 0
    /\ called = 2

\* C17: a tool call that fails does not abort the task: every call made has
\* its tool message in the log, the error of a failed one included; status
\* "error" comes only from an exception of a constructor or of the analyst
\* node; a task whose tool calls all failed goes through Msg Clear and its
\* record has status "completed".
C17_ToolFailureDoesNotAbort ==
    TaskRun =>
        /\ Len(ToolLog) = called
        /\ status = "error" <=> raisedAt \in {"build", "produce"}
        /\ (node = "returned" /\ agent_type \in factory_map /\ raisedAt = "nowhere") =>
              /\ Finalized
              /\ record[1].status = "completed"

C17_Witness ==
    /\ TaskRun
    /\ node = "returned"
    /\ called = 2
    /\ \A k \in 1..Len(ToolLog) : ToolLog[k].text = "error"
    /\ Finalized
    /\ record[1].status = "completed"

\* C18: execute_agent never throws: whatever the agent id, and whatever fails
\* while the graph is built or run, it returns a record of status "error"
\* that carries the reason.
C18_NeverThrows ==
    TaskRun =>
        /\ node # "raised"
        /\ (node = "returned" /\ (agent_type \notin AGENTS \/ raisedAt # "nowhere")) =>
              /\ record[1].status = "error"
              /\ record[1].analysis = "Agent execution failed"

\* the record execute_agent returned
Returned == record[1]

\* C19, as claimed: a record of status completed carries a non-empty report
\* text and no failure reason; a record of a failed status carries a failure
\* reason and no report text.
C19_ExactlyOnePopulated ==
    (TaskRun /\ node = "returned") =>
        /\ Returned.status = "completed" =>
              Returned.analysis \in {"report", "placeholder"}
        /\ Returned.status = "error" => Returned.analysis = "Agent execution failed"

\* C19, amended: a record carries one text, in its field analysis. With status
\* "completed" it is the report: the placeholder text for an agent that is no
\* analyst, the text of the analyst's last message otherwise, which may be
\* empty. With status "error" (an exception was caught) it is the failure
\* reason, never empty. No record carries both.
C19_OneTextField ==
    (TaskRun /\ node = "returned") =>
        /\ Returned.agent = agent_type
        /\ Returned.status \in Statuses(agent_type)
        /\ Returned.status = "completed" <=> raisedAt = "nowhere"
        /\ Returned.status = "completed" =>
              Returned.analysis = (IF agent_type \in factory_map
                                     THEN LastProducerText(messages)
                                     ELSE "placeholder")
        /\ Returned.status = "error" => Returned.analysis = "Agent execution failed"
        /\ Returned.analysis # "None"

C19_Witness ==
    /\ TaskRun
    /\ node = "returned"
    /\ Returned.status = "completed"
    /\ Returned.analysis = ""
    /\ called = 1

-----------------------------------------------------------------------------
(* The output store *)

\* the file name the task of turn k wrote to, or would have (master_workflow:
\* one second passes between two turns)
TurnStem(k) == IF Master THEN <<launched[k], k - 1>> ELSE results[k].info

\* the records written in this run
Written == {f \in files : f.cur}

\* C21: every task execution writes its record to a file of its own: the file
\* it opens does not exist yet, so no record is overwritten.
C21_OwnFilePerTask ==
    [][/\ (Master /\ child = "open" /\ child' = "dump") =>
              ~ \E f \in InDir(files, output_path) : Stem(f) = <<agent, clock>>
       /\ (RunAll /\ launched' # launched
              /\ results'[Len(results')].status = "completed") =>
              ~ \E f \in InDir(files, output_path) :
                    Stem(f) = <<agents_to_run[i], clock>>]_vars

\* C22: a task that crashes, times out or fails leaves the other tasks alone:
\* the record of every task that completed is still there, complete, the
\* failures recorded are those of the failed tasks only, and the tasks that
\* follow are executed.
C22_FailureLeavesOthersAlone ==
    /\ \A k \in 1..Len(outcomes) :
          k \notin FailedTurns =>
              \E f \in Written : f.complete /\ Stem(f) = TurnStem(k)
    /\ Master => failed_agents = Select(launched, FailedTurns, 1)
    /\ RunAll => \A k \in 1..Len(results) :
                    results[k].status = "error" <=> k \in FailedTurns
    /\ ExecuteEnded => launched = Plan

\* C24: a record whose status is not "completed" makes its task a failed task
\* of the batch: the process that wrote it exits non-zero (run_agents lists
\* the task in failed_agents), and run_all_agents records the task as "error".
C24_ErrorRecordIsFailure ==
    /\ Master =>
          \A k \in 1..Len(outcomes) :
              (\E f \in Written : /\ Stem(f) = TurnStem(k)
                                  /\ f.complete
                                  /\ f.status # "completed")
                  => k \in FailedTurns
    /\ RunAll =>
          \A k \in 1..Len(outcomes) :
              outcomes[k] = "error" => results[k].status = "error"

\* C25: every record Discover returns was written by a task of this run; when
\* no task of this run wrote anything, Discover fails and the exit code is 1.
C25_DiscoverOnlyThisRun ==
    Master =>
        /\ \A r \in json_files : \E f \in Written : Stem(f) = r
        /\ (Started("discover") /\ Written = {}) =>
              /\ rets.discover = "False"
              /\ pc = "done" => exitCode = 1

\* C26: every record written by a task process of this run lies in the
\* directory Discover enumerates, and Discover returns it.
C26_WrittenIsDiscovered ==
    Master =>
        /\ \A f \in Written : f.dir = results_dir
        /\ Started("discover") =>
              /\ \A f \in Written : Stem(f) \in json_files
              /\ Written # {} => rets.discover = "True"

C26_Witness ==
    /\ Master
    /\ pc = "done"
    /\ ticker = "INTC"
    /\ outcomes = <<"exit0", "timeout", "exit0">>
    /\ Cardinality(Written) = 3
    /\ Cardinality(json_files) = 3

\* C28: the `agent run` process writes a record only after its checks have
\* passed, and a process that exits with a non-zero code has written no record.
C28_NoRecordOnFailure ==
    Master =>
        /\ (\A k \in 1..Len(launched) : launched[k] \notin AGENTS) => Written = {}
        /\ \A k \in 1..Len(outcomes) :
              outcomes[k] = "exit1" => ~ \E f \in Written : Stem(f) = TurnStem(k)

\* C29: convert_to_word returns False without trying the combined document
\* when the per-file conversion fails; a failure of the combined conversion
\* alone is not fatal; it returns True exactly when a document has been
\* collected; every document collected comes from a record discovered in this
\* run.
C29_ConvertResult ==
    (Master /\ conv # <<>>) =>
        /\ conv[1] # "exit0" => Len(conv) = 1 /\ rets.transform = "False"
        /\ rets.transform # "unset" => (rets.transform = "True" <=> word_files # {})
        /\ (Len(conv) = 2 /\ conv[2] # "exit0" /\ word_files # {}) =>
              rets.transform = "True"
        /\ \A w \in word_files : w = Combined \/ w \in json_files

-----------------------------------------------------------------------------
(* Termination of AnalysisOrchestrator.run *)

\* master_workflow.py alone
MasterNext ==
    \/ validate_setup
    \/ run_agents_begin
    \/ Launch
    \/ ChildChecks
    \/ ChildMkdir
    \/ ChildExecute
    \/ ChildOpen
    \/ ChildDump
    \/ ChildDisplay
    \/ ChildReturn
    \/ Timeout
    \/ Sleep
    \/ run_agents_return
    \/ discover_json_files
    \/ convert_to_word
    \/ convert_combined
    \/ generate_summary
    \/ main_exit

\* the steps of the orchestrator's own process; subprocess.run(..., timeout=120)
\* returns or raises TimeoutExpired whatever the child does
OrchestratorStep ==
    \/ validate_setup
    \/ run_agents_begin
    \/ Launch
    \/ ChildReturn
    \/ Timeout
    \/ Sleep
    \/ run_agents_return
    \/ discover_json_files
    \/ convert_to_word
    \/ convert_combined
    \/ generate_summary
    \/ main_exit

\* the lists of -a the termination is checked for: a known id, and a known id
\* followed by an unknown one
LivePlans == {<<"market">>, <<"market", "bogus">>, <<"bogus", "market">>}

\* master_workflow.py INTC 2025-12-25 -a ..., with the collaborators all
\* present or all missing, and no document left by an earlier run
LiveInit ==
    /\ prog = "master"
    /\ InitCommon
    /\ GraphIdle
    /\ GitIdle
    /\ env \in {Paths, {}}
    /\ docx = {}
    /\ \E a \in LivePlans : OrchestratorInit("intc", "2025-12-25", a)

\* the orchestrator's process is scheduled; no step of a child is ever
\* required to happen (a child may hang for ever)
LiveSpec == LiveInit /\ [][MasterNext]_vars /\ WF_vars(OrchestratorStep)

-----------------------------------------------------------------------------
(* src/Utils/git_clone_script.py: clone_or_update_repo *)

\* sys.platform: subprocess treats a list given with shell=True differently
Platforms == {"win32", "posix"}

\* a repository URL: the pieces of its last path segment and the number of
\* "/" after it (everything before the last segment is not looked at)
Urls ==
    [name : {<<"repo">>, <<"repo", ".git">>}, slashes : {0, 1}]

\* os.getcwd()
cwd == <<"/", "cwd">>

\* the destination as given: None, a relative path, an absolute path
Destinations == {"None", <<"work", "repo">>, <<"/", "srv", "repo">>}

\* the branch as given: None, the empty string, a name
Branches == {"None", "", "dev"}

\* lines 184-186: repo_url.rstrip('/').split('/')[-1], without a final ".git"
repo_name(url) ==
    IF url.name[Len(url.name)] = ".git"
      THEN SubSeq(url.name, 1, Len(url.name) - 1)
      ELSE url.name

\* os.path.abspath
abspath(p) == IF p[1] = "/" THEN p ELSE cwd \o p

\* lines 183-189: the path the repository is looked for at
ResolvedPath(url, d) ==
    IF d = "None" THEN abspath(cwd \o repo_name(url)) ELSE abspath(d)

\* lines 220-224
clone_command ==
    <<"git", "clone", repo_url, destination_path>>
        \o (IF branch \notin {"None", ""} THEN <<"-b", branch>> ELSE <<>>)

\* subprocess.run(command, shell=True) with a list: on Windows the list is
\* joined to one command line; on POSIX the shell is given command[0] as its
\* command string and the other items as its own arguments
ShellCommand(command) ==
    IF platform = "posix" THEN <<command[1]>> ELSE command

\* the exit status a command can have: `git` without a sub-command prints
\* its usage and exits with 1
CommandOutcomes(c) == IF Len(c) = 1 THEN {FALSE} ELSE BOOLEAN

\* run_git_command: the command is run; CalledProcessError gives (False, stderr)
run_git_command(command, ok) ==
    /\ ok \in CommandOutcomes(ShellCommand(command))
    /\ executed' = Append(executed, [cmd |-> ShellCommand(command), ok |-> ok])

GitInit ==
    /\ prog = "git_clone"
    /\ pc = "idle"
    /\ InitCommon
    /\ dirExists = FALSE
    /\ env = {}
    /\ docx = {}
    /\ ticker = ""
    /\ date = ""
    /\ agents = <<>>
    /\ GraphIdle
    /\ gpc = "start"
    /\ platform \in Platforms
    /\ repo_url \in Urls
    /\ destination_path \in Destinations
    /\ branch \in Branches
    /\ dest \in {"absent", "dir", "repo"}
    /\ executed = <<>>
    /\ gret = "unset"

\* lines 183-189
G_resolve ==
    /\ gpc = "start"
    /\ destination_path' = ResolvedPath(repo_url, destination_path)
    /\ gpc' = "exists"
    /\ UNCHANGED <<platform, repo_url, branch, dest, executed, gret>>
    /\ UNCHANGED gvars
    /\ UNCHANGED ovars

\* lines 192-193 and 212-218: what is at the destination
G_exists ==
    /\ gpc = "exists"
    /\ gpc' = CASE dest = "repo" -> "fetch"
                [] dest = "dir" -> "returned"
                [] dest = "absent" -> "clone"
    /\ gret' = (IF dest = "dir" THEN "False" ELSE gret)
    /\ UNCHANGED <<platform, repo_url, destination_path, branch, dest, executed>>
    /\ UNCHANGED gvars
    /\ UNCHANGED ovars

\* lines 198-201: git fetch --all in the repository
G_fetch ==
    /\ gpc = "fetch"
    /\ \E ok \in BOOLEAN :
          /\ run_git_command(<<"git", "fetch", "--all">>, ok)
          /\ gpc' = (IF ok THEN "pull" ELSE "returned")
          /\ gret' = (IF ok THEN gret ELSE "False")
    /\ UNCHANGED <<platform, repo_url, destination_path, branch, dest>>
    /\ UNCHANGED gvars
    /\ UNCHANGED ovars

\* lines 204-211: git pull
G_pull ==
    /\ gpc = "pull"
    /\ \E ok \in BOOLEAN :
          /\ run_git_command(<<"git", "pull">>, ok)
          /\ gret' = (IF ok THEN "True" ELSE "False")
    /\ gpc' = "returned"
    /\ UNCHANGED <<platform, repo_url, destination_path, branch, dest>>
    /\ UNCHANGED gvars
    /\ UNCHANGED ovars

\* lines 220-233: git clone; a clone that succeeded leaves a repository
G_clone ==
    /\ gpc = "clone"
    /\ \E ok \in BOOLEAN :
          /\ run_git_command(clone_command, ok)
          /\ gret' = (IF ok THEN "True" ELSE "False")
          /\ dest' = (IF ok THEN "cloned" ELSE dest)
    /\ gpc' = "returned"
    /\ UNCHANGED <<platform, repo_url, destination_path, branch>>
    /\ UNCHANGED gvars
    /\ UNCHANGED ovars

GitNext ==
    \/ G_resolve
    \/ G_exists
    \/ G_fetch
    \/ G_pull
    \/ G_clone

GitSpec == GitInit /\ [][GitNext]_vars

\* the k-th command the shell ran was git with the words ws after it
RanGit(k, ws) ==
    /\ k <= Len(executed)
    /\ Len(executed[k].cmd) >= 1 + Len(ws)
    /\ SubSeq(executed[k].cmd, 1, 1 + Len(ws)) = <<"git">> \o ws

\* C30: clone_or_update_repo clones when nothing is at the destination,
\* updates when a repository is there (git fetch --all, then git pull unless
\* the fetch failed), returns False without running a command when a
\* directory that is no repository is there, and returns True only if the last
\* command it ran succeeded.
C30_CloneOrUpdate ==
    (prog = "git_clone" /\ gpc = "returned") =>
        /\ gret \in {"True", "False"}
        /\ dest \in {"absent", "cloned"} =>
              /\ Len(executed) = 1
              /\ RanGit(1, <<"clone">>)
        /\ dest = "repo" =>
              /\ RanGit(1, <<"fetch", "--all">>)
              /\ IF executed[1].ok
                   THEN Len(executed) = 2 /\ RanGit(2, <<"pull">>)
                   ELSE Len(executed) = 1
        /\ dest = "dir" => executed = <<>> /\ gret = "False"
        /\ gret = "True" => executed # <<>> /\ executed[Len(executed)].ok

====
